---- MODULE Spec2Model ----
(***************************************************************************)
(* Model of scripts/models.py: the generator that fetches the Argo OpenAPI *)
(* specification, filters its definition keys by model type (workflows or  *)
(* events) and writes src/hera/<models_type>/models/__init__.py.           *)
(*                                                                         *)
(* A Python str is modelled as a sequence of one-character strings, so     *)
(* that substring tests, splitting, joining, upper-casing and ordering are *)
(* computed character by character, as the interpreter computes them.      *)
(***************************************************************************)
EXTENDS Integers, Sequences, FiniteSets, TLC

(***************************************************************************)
(* Python str primitives                                                   *)
(***************************************************************************)

\* The printable ASCII characters in code point order, 32 (space) .. 126 (~).
\* The grave accent (96) cannot be written in a TLA+ string: "<grave>" stands for it.
Ascii ==
    <<" ", "!", "\"", "#", "$", "%", "&", "'", "(", ")", "*", "+", ",", "-", ".", "/",
       "0", "1", "2", "3", "4", "5", "6", "7", "8", "9", ":", ";", "<", "=", ">", "?",
       "@", "A", "B", "C", "D", "E", "F", "G", "H", "I", "J", "K", "L", "M", "N", "O",
       "P", "Q", "R", "S", "T", "U", "V", "W", "X", "Y", "Z", "[", "\\", "]", "^", "_",
       "<grave>", "a", "b", "c", "d", "e", "f", "g", "h", "i", "j", "k", "l", "m", "n", "o",
       "p", "q", "r", "s", "t", "u", "v", "w", "x", "y", "z", "{", "|", "}", "~">>

\* ord(c) for a printable ASCII character.
ord == [c \in {Ascii[i] : i \in 1..Len(Ascii)} |->
            31 + (CHOOSE i \in 1..Len(Ascii) : Ascii[i] = c)]

\* str.upper() of one character: a..z map to A..Z, the rest is unchanged.
upper(c) ==
    IF c \in DOMAIN ord /\ ord[c] >= 97 /\ ord[c] <= 122
    THEN Ascii[ord[c] - 32 - 31]
    ELSE c

\* a < b on str: lexicographic by code point, a proper prefix is smaller.
RECURSIVE str_lt_from(_, _, _)
str_lt_from(a, b, i) ==
    IF i > Len(b) THEN FALSE
    ELSE IF i > Len(a) THEN TRUE
    ELSE IF a[i] = b[i] THEN str_lt_from(a, b, i + 1)
    ELSE ord[a[i]] < ord[b[i]]

str_lt(a, b) == str_lt_from(a, b, 1)

\* s.startswith(sub, at): sub occurs in s at offset `at` (0-based).
RECURSIVE match_at(_, _, _, _)
match_at(sub, s, at, j) ==
    IF j > Len(sub) THEN TRUE
    ELSE IF at + j > Len(s) THEN FALSE
    ELSE IF s[at + j] # sub[j] THEN FALSE
    ELSE match_at(sub, s, at, j + 1)

\* `sub in s` on str: scan the offsets left to right.
RECURSIVE str_in_from(_, _, _)
str_in_from(sub, s, at) ==
    IF at + Len(sub) > Len(s) THEN FALSE
    ELSE IF match_at(sub, s, at, 1) THEN TRUE
    ELSE str_in_from(sub, s, at + 1)

str_in(sub, s) == str_in_from(sub, s, 0)

\* s.split(sep) for a one-character separator: empty segments are kept.
RECURSIVE str_split_from(_, _, _, _)
str_split_from(s, sep, i, cur) ==
    IF i > Len(s) THEN <<cur>>
    ELSE IF s[i] = sep THEN <<cur>> \o str_split_from(s, sep, i + 1, <<>>)
    ELSE str_split_from(s, sep, i + 1, Append(cur, s[i]))

str_split(s, sep) == str_split_from(s, sep, 1, <<>>)

\* sep.join(parts)
RECURSIVE str_join(_, _)
str_join(sep, parts) ==
    IF parts = <<>> THEN <<>>
    ELSE IF Len(parts) = 1 THEN parts[1]
    ELSE parts[1] \o sep \o str_join(sep, Tail(parts))

\* Optional[str]: None is the empty tuple, a str s is <<s>>.
None == <<>>
Some(s) == <<s>>

\* Truth value of an Optional[str]: None and "" are false.
truthy(opt) == opt # None /\ opt[1] # <<>>

Range(seq) == {seq[i] : i \in 1..Len(seq)}

\* list(S) for a set S: Python fixes no iteration order, any order can occur.
Orderings(S) ==
    {q \in [1..Cardinality(S) -> S] : \A i, j \in 1..Cardinality(S) : i # j => q[i] # q[j]}

(***************************************************************************)
(* String literals of scripts/models.py                                    *)
(***************************************************************************)

s_workflows ==
    <<"w","o","r","k","f","l","o","w","s">>
s_events ==
    <<"e","v","e","n","t","s">>
s_event ==
    <<"e","v","e","n","t">>
s_eventsource ==
    <<"e","v","e","n","t","s","o","u","r","c","e">>
s_sensor ==
    <<"s","e","n","s","o","r">>
s_core_v1_Event ==
    <<"i","o",".","k","8","s",".","a","p","i",".","c","o","r","e",".","v","1",".","E","v",
      "e","n","t">>
s_core_v1_EventSeries ==
    <<"i","o",".","k","8","s",".","a","p","i",".","c","o","r","e",".","v","1",".","E","v",
      "e","n","t","S","e","r","i","e","s">>
s_core_v1_EventSource ==
    <<"i","o",".","k","8","s",".","a","p","i",".","c","o","r","e",".","v","1",".","E","v",
      "e","n","t","S","o","u","r","c","e">>
s_HTTPHeader ==
    <<"H","T","T","P","H","e","a","d","e","r">>
s_LogEntry ==
    <<"L","o","g","E","n","t","r","y">>
s_dot ==
    <<".">>
s_hera_dot ==
    <<"h","e","r","a",".">>
s_dot_models ==
    <<".","m","o","d","e","l","s">>
s_from ==
    <<"f","r","o","m"," ">>
s_import ==
    <<" ","i","m","p","o","r","t"," ">>
s_as ==
    <<" ","a","s"," ">>
s_newline ==
    <<"\n">>
s_quote ==
    <<"\"">>
s_comma_space ==
    <<","," ">>
s_header_1 ==
    <<"\"","\"","\"","[","D","O"," ","N","O","T"," ","E","D","I","T"," ","M","A","N","U","A",
      "L","L","Y","]"," ","A","u","t","o","-","g","e","n","e","r","a","t","e","d"," ","m",
      "o","d","e","l"," ","c","l","a","s","s","e","s",".","\n","\n">>
s_header_2 ==
    <<"A","u","t","o","-","g","e","n","e","r","a","t","e","d"," ","b","y"," ","H","e","r",
      "a"," ","v","i","a"," ","<grave>","m","a","k","e"," ">>
s_header_3 ==
    <<"-","m","o","d","e","l","s","<grave>",".","\n">>
s_header_4 ==
    <<"O","p","e","n","A","P","I"," ","s","p","e","c"," ","U","R","L",":"," ">>
s_header_5 ==
    <<"\n">>
s_header_6 ==
    <<"\"","\"","\"","\n","\n">>
s_events_module ==
    <<"h","e","r","a",".","e","v","e","n","t","s",".","m","o","d","e","l","s",".","i","o",
      ".","a","r","g","o","p","r","o","j",".","w","o","r","k","f","l","o","w",".","v","1",
      "a","l","p","h","a","1">>
s_Item ==
    <<"I","t","e","m">>
s_Event ==
    <<"E","v","e","n","t">>
s_EventResponse ==
    <<"E","v","e","n","t","R","e","s","p","o","n","s","e">>
s_GetUserInfoResponse ==
    <<"G","e","t","U","s","e","r","I","n","f","o","R","e","s","p","o","n","s","e">>
s_InfoResponse ==
    <<"I","n","f","o","R","e","s","p","o","n","s","e">>
s_Version ==
    <<"V","e","r","s","i","o","n">>
s_ImagePullPolicy ==
    <<"I","m","a","g","e","P","u","l","l","P","o","l","i","c","y">>
s_TerminationMessagePolicy ==
    <<"T","e","r","m","i","n","a","t","i","o","n","M","e","s","s","a","g","e","P","o","l",
      "i","c","y">>
s_Protocol ==
    <<"P","r","o","t","o","c","o","l">>
s_Scheme ==
    <<"S","c","h","e","m","e">>
s_Operator ==
    <<"O","p","e","r","a","t","o","r">>
s_Type ==
    <<"T","y","p","e">>
s_Phase ==
    <<"P","h","a","s","e">>
s_TypeModel ==
    <<"T","y","p","e","M","o","d","e","l">>
s_Effect ==
    <<"E","f","f","e","c","t">>
s_OperatorModel ==
    <<"O","p","e","r","a","t","o","r","M","o","d","e","l">>
s_dot_core_v1 ==
    <<".","m","o","d","e","l","s",".","i","o",".","k","8","s",".","a","p","i",".","c","o",
      "r","e",".","v","1">>
s_all_open ==
    <<"\n","_","_","a","l","l","_","_"," ","="," ","[">>
s_all_close ==
    <<"]","\n">>

(***************************************************************************)
(* The functions of scripts/models.py                                      *)
(***************************************************************************)

model_types == {s_workflows, s_events}

\* The dataclass ImportReference(path, name, alias=None).
ImportReference(path, name, alias) == [path |-> path, name |-> name, alias |-> alias]

\* ImportReference.rendered_import
rendered_import(self) ==
    LET name == IF truthy(self.alias)
                THEN self.name \o s_as \o self.alias[1]
                ELSE self.name
    IN  s_from \o self.path \o s_import \o name \o s_newline

\* ImportReference.aliased_name
aliased_name(self) == IF truthy(self.alias) THEN self.alias[1] ELSE self.name

\* The order dataclass(order=True) generates: the tuples (path, name, alias)
\* are compared at their first unequal component.
ref_lt(a, b) ==
    IF a.path # b.path THEN str_lt(a.path, b.path)
    ELSE IF a.name # b.name THEN str_lt(a.name, b.name)
    ELSE IF a.alias # b.alias /\ a.alias # None /\ b.alias # None
         THEN str_lt(a.alias[1], b.alias[1])
    ELSE FALSE

\* `<` between None and a str raises TypeError: it is evaluated when two
\* references agree on path and name and exactly one of them has an alias.
ref_lt_raises(a, b) ==
    /\ a.path = b.path
    /\ a.name = b.name
    /\ a.alias # b.alias
    /\ (a.alias = None \/ b.alias = None)

inclusions == <<s_events, s_event, s_eventsource, s_sensor>>

exclusions == <<s_core_v1_Event, s_core_v1_EventSeries, s_core_v1_EventSource>>

\* events_pass with the marker matched against whole dotted segments instead
\* of as a substring.
events_pass_whole_segments(refs, inclusion) ==
    SelectSeq(refs, LAMBDA ref : inclusion \in Range(str_split(ref, s_dot[1])))

\* One pass of the events branch: the refs that contain the marker, in order.
events_pass(refs, inclusion) ==
    SelectSeq(refs, LAMBDA ref : str_in(inclusion, ref))

\* The list `events` after the loop over the markers (duplicates included).
RECURSIVE events_loop(_, _)
events_loop(refs, markers) ==
    IF markers = <<>> THEN <<>>
    ELSE events_pass(refs, Head(markers)) \o events_loop(refs, Tail(markers))

\* filtered_pass without the test against the exclusions.
filtered_pass_markers_only(filtered, inclusion) ==
    SelectSeq(filtered, LAMBDA r : ~str_in(inclusion, r))

\* One pass of the other branch: filter(lambda r: ..., filtered).
filtered_pass(filtered, inclusion) ==
    SelectSeq(filtered,
              LAMBDA r : ~str_in(inclusion, r) /\ r \notin Range(exclusions))

\* The list `filtered` after the loop over the markers.
RECURSIVE filtered_loop(_, _)
filtered_loop(filtered, markers) ==
    IF markers = <<>> THEN filtered
    ELSE filtered_loop(filtered_pass(filtered, Head(markers)), Tail(markers))

\* The set handed to list(set(...)) on return.
filter_result_set(refs, models_type) ==
    IF models_type = s_events
    THEN Range(events_loop(refs, inclusions))
    ELSE Range(filtered_loop(refs, inclusions))

\* filter_refs_on_models_type: the lists it can return, one per iteration
\* order of the set.
filter_refs_on_models_type(refs, models_type) ==
    Orderings(filter_result_set(refs, models_type))

assemble_root_path_from_models_type(m_type) == s_hera_dot \o m_type \o s_dot_models

\* split[-2] raises IndexError for a key without a dot whose only segment is
\* one of the two colliding names.
import_path_raises(ref) ==
    LET split == str_split(ref, s_dot[1])
    IN  Len(split) < 2 /\ split[Len(split)] \in {s_HTTPHeader, s_LogEntry}

\* import_path_from_ref with the alias left as the raw concatenation.
import_path_from_ref_raw_alias(ref, root_path) ==
    LET split == str_split(ref, s_dot[1])
        n     == Len(split)
        path  == str_join(s_dot, SubSeq(split, 1, n - 1))
        obj   == split[n]
        alias == IF obj \in {s_HTTPHeader, s_LogEntry}
                 THEN Some(split[n - 1] \o obj)
                 ELSE None
    IN  ImportReference(root_path \o s_dot \o path, obj, alias)

\* The body of the loop of get_import_paths_from_refs for one ref.
import_path_from_ref(ref, root_path) ==
    LET split == str_split(ref, s_dot[1])
        n     == Len(split)
        path  == str_join(s_dot, SubSeq(split, 1, n - 1))
        obj   == split[n]
        alias == IF obj \in {s_HTTPHeader, s_LogEntry}
                 THEN LET raw_alias == split[n - 1] \o obj
                      IN  Some(<<upper(raw_alias[1])>> \o Tail(raw_alias))
                 ELSE None
    IN  ImportReference(root_path \o s_dot \o path, obj, alias)

get_import_paths_from_refs(refs, root_path) ==
    [i \in 1..Len(refs) |-> import_path_from_ref(refs[i], root_path)]

events_symbols ==
    <<s_Item, s_Event, s_EventResponse, s_GetUserInfoResponse, s_InfoResponse, s_Version>>

enums ==
    <<s_ImagePullPolicy, s_TerminationMessagePolicy, s_Protocol, s_Scheme, s_Operator,
      s_Type, s_Phase, s_TypeModel, s_Effect, s_OperatorModel>>

\* events_references without the test of the models type.
events_references_always(models_type) ==
    [i \in 1..Len(events_symbols) |->
         ImportReference(s_events_module, events_symbols[i], None)]

\* The references appended when models_type == "events".
events_references(models_type) ==
    IF models_type = s_events
    THEN [i \in 1..Len(events_symbols) |->
              ImportReference(s_events_module, events_symbols[i], None)]
    ELSE <<>>

\* The references appended for every models_type.
enums_references(models_type) ==
    [i \in 1..Len(enums) |->
         ImportReference(s_hera_dot \o models_type \o s_dot_core_v1, enums[i], None)]

\* `references` after the two append loops of write_imports.
appended_references(references, models_type) ==
    references \o events_references(models_type) \o enums_references(models_type)

\* sorted(): x is inserted before the first element it is smaller than.
insert_ref(s, x) ==
    LET later == {i \in 1..Len(s) : ref_lt(x, s[i])}
        k     == IF later = {} THEN Len(s) + 1
                 ELSE CHOOSE i \in later : \A j \in later : i <= j
    IN  SubSeq(s, 1, k - 1) \o <<x>> \o SubSeq(s, k, Len(s))

RECURSIVE sorted_refs_from(_, _, _)
sorted_refs_from(refs, i, acc) ==
    IF i > Len(refs) THEN acc
    ELSE sorted_refs_from(refs, i + 1, insert_ref(acc, refs[i]))

\* sorted(references)
sorted_refs(refs) == sorted_refs_from(refs, 1, <<>>)

\* sorted(references) raises TypeError when it has to order None and a str.
sorted_refs_raises(refs) ==
    \E i, j \in 1..Len(refs) : ref_lt_raises(refs[i], refs[j])

insert_str(s, x) ==
    LET later == {i \in 1..Len(s) : str_lt(x, s[i])}
        k     == IF later = {} THEN Len(s) + 1
                 ELSE CHOOSE i \in later : \A j \in later : i <= j
    IN  SubSeq(s, 1, k - 1) \o <<x>> \o SubSeq(s, k, Len(s))

RECURSIVE sorted_strs_from(_, _, _)
sorted_strs_from(strs, i, acc) ==
    IF i > Len(strs) THEN acc
    ELSE sorted_strs_from(strs, i + 1, insert_str(acc, strs[i]))

\* sorted() of a list of str
sorted_strs(strs) == sorted_strs_from(strs, 1, <<>>)

\* The docstring write_imports writes first.
header(models_type, openapi_spec_url) ==
    s_header_1 \o s_header_2 \o models_type \o s_header_3
               \o s_header_4 \o openapi_spec_url \o s_header_5 \o s_header_6

\* import_lines without sorted(): the references are written as they come.
import_lines_unsorted(references) ==
    [i \in 1..Len(references) |-> rendered_import(references[i])]

\* The import lines, one f.write per sorted reference.
import_lines(references) ==
    LET ordered == sorted_refs(references)
    IN  [i \in 1..Len(ordered) |-> rendered_import(ordered[i])]

\* models_strs without sorted().
models_strs_unsorted(references) ==
    [i \in 1..Len(references) |-> s_quote \o aliased_name(references[i]) \o s_quote]

\* models_strs: the quoted aliased names, sorted.
models_strs(references) ==
    sorted_strs([i \in 1..Len(references) |->
                     s_quote \o aliased_name(references[i]) \o s_quote])

\* The last f.write: the __all__ assignment.
all_line(references) ==
    s_all_open \o str_join(s_comma_space, models_strs(references)) \o s_all_close

\* The f.write calls of write_imports, in order, for the appended list.
written_chunks(references, models_type, openapi_spec_url) ==
    <<header(models_type, openapi_spec_url)>>
        \o import_lines(references)
        \o <<all_line(references)>>

(***************************************************************************)
(* Inputs: the command line, the server's answer, the files on disk        *)
(***************************************************************************)

\* The longest definitions mapping the server's document carries.
MaxKeys == 2

\* The most arguments after the script name.
MaxArgs == 3

k_core_v1_Pod ==
    <<"i","o",".","k","8","s",".","a","p","i",".","c","o","r","e",".","v","1",".","P","o",
      "d">>
k_core_v1_HTTPHeader ==
    <<"i","o",".","k","8","s",".","a","p","i",".","c","o","r","e",".","v","1",".","H","T",
      "T","P","H","e","a","d","e","r">>
k_workflow_HTTPHeader ==
    <<"i","o",".","a","r","g","o","p","r","o","j",".","w","o","r","k","f","l","o","w",".",
      "v","1","a","l","p","h","a","1",".","H","T","T","P","H","e","a","d","e","r">>
k_core_v1_ImagePullPolicy ==
    <<"i","o",".","k","8","s",".","a","p","i",".","c","o","r","e",".","v","1",".","I","m",
      "a","g","e","P","u","l","l","P","o","l","i","c","y">>
k_events_v1_Event ==
    <<"i","o",".","k","8","s",".","a","p","i",".","e","v","e","n","t","s",".","v","1",".",
      "E","v","e","n","t">>
k_events_Sensor ==
    <<"i","o",".","a","r","g","o","p","r","o","j",".","e","v","e","n","t","s",".","v","1",
      "a","l","p","h","a","1",".","S","e","n","s","o","r">>
k_sensor_LogEntry ==
    <<"s","e","n","s","o","r",".","L","o","g","E","n","t","r","y">>
k_policy_Prevent ==
    <<"i","o",".","k","8","s",".","a","p","i",".","p","o","l","i","c","y",".","v","1",".",
      "P","r","e","v","e","n","t">>

\* The definition keys a fetched document can carry: dotted type names.
DefinitionKeys ==
    {k_core_v1_Pod, s_core_v1_Event, s_core_v1_EventSeries, s_core_v1_EventSource,
     k_core_v1_HTTPHeader, k_workflow_HTTPHeader, k_core_v1_ImagePullPolicy,
     k_events_v1_Event, k_events_Sensor, k_sensor_LogEntry, k_policy_Prevent}

\* dict keys are distinct and keep their insertion order.
KeyLists ==
    UNION {{q \in [1..n -> DefinitionKeys] : \A i, j \in 1..n : i # j => q[i] # q[j]}
           : n \in 0..MaxKeys}

s_script ==
    <<"s","c","r","i","p","t","s","/","m","o","d","e","l","s",".","p","y">>
s_sensors ==
    <<"s","e","n","s","o","r","s">>
s_extra ==
    <<"e","x","t","r","a">>
u_master ==
    <<"h","t","t","p","s",":","/","/","a","/","s","w","a","g","g","e","r",".","j","s","o",
      "n">>
u_release ==
    <<"h","t","t","p","s",":","/","/","b","/","s","w","a","g","g","e","r",".","j","s","o",
      "n">>

\* sys.argv: the script name followed by up to MaxArgs arguments.
ArgvChoices ==
    {SubSeq(<<s_script, url, cat, s_extra, s_extra>>, 1, 1 + n) :
        url \in {u_master, u_release},
        cat \in {s_workflows, s_events, s_sensors},
        n \in 0..MaxArgs}

\* What requests.get(url) gives: a response that is not ok, an ok one whose
\* body is not JSON, or an ok one whose JSON document has or has not the
\* "definitions" mapping (its keys, in order).
Responses ==
    {[ok |-> FALSE, is_json |-> FALSE, json |-> [swagger |-> "2.0"]],
     [ok |-> TRUE, is_json |-> FALSE, json |-> [swagger |-> "2.0"]],
     [ok |-> TRUE, is_json |-> TRUE, json |-> [swagger |-> "2.0"]]}
    \cup {[ok |-> TRUE, is_json |-> TRUE,
           json |-> [swagger |-> "2.0", definitions |-> keys]] : keys \in KeyLists}

\* The directories os.walk visits under src/hera/<models_type>/models.
Dirs ==
    {"src/hera/workflows/models", "src/hera/workflows/models/io",
     "src/hera/workflows/models/__pycache__",
     "src/hera/events/models", "src/hera/events/models/io"}

\* f"src/hera/{models_type}/models", the walk's top and the generated file's
\* directory, for the two model types.
models_dir(m_type) ==
    CASE m_type = s_workflows -> "src/hera/workflows/models"
      [] m_type = s_events -> "src/hera/events/models"

\* os.walk(f"src/hera/{models_type}/models"): the roots it yields.
walk(m_type) ==
    CASE m_type = s_workflows ->
            {"src/hera/workflows/models", "src/hera/workflows/models/io",
             "src/hera/workflows/models/__pycache__"}
      [] m_type = s_events ->
            {"src/hera/events/models", "src/hera/events/models/io"}

\* "__pycache__" in root
in_pycache(root) == root = "src/hera/workflows/models/__pycache__"

\* An __init__.py: absent, or present with the chunks written to it.
NoFile == [exists |-> FALSE, chunks |-> <<>>]
File(chunks) == [exists |-> TRUE, chunks |-> chunks]

s_stale ==
    <<"\"","\"","\"","[","D","O"," ","N","O","T"," ","E","D","I","T"," ","M","A","N","U","A",
      "L","L","Y","]"," ","s","t","a","l","e","\n","\"","\"","\"","\n">>

\* A file left by an earlier run.
StaleFile == File(<<s_stale>>)

\* The trees a run can start from: a fresh checkout, and one generated before.
InitialTrees ==
    {[d \in Dirs |-> NoFile],
     [d \in Dirs |-> IF d \in {"src/hera/workflows/models", "src/hera/events/models"}
                     THEN StaleFile
                     ELSE IF in_pycache(d) THEN NoFile ELSE File(<<>>)]}

(***************************************************************************)
(* State                                                                   *)
(***************************************************************************)

VARIABLES
    argv,              \* sys.argv
    server,            \* what the server answers to requests.get
    init_py,           \* the __init__.py of each directory
    pc,                \* the statement of __main__ that runs next
    error,             \* the exception that ended the run, "" if none
    requests_sent,     \* the calls of requests.get so far
    files_opened,      \* the directories whose __init__.py was opened for writing
    models_type, openapi_spec_url, openapi_spec, definitions,
    refs, filtered_refs, root_path, imports   \* the variables of __main__

vars ==
    <<argv, server, init_py, pc, error, requests_sent, files_opened,
      models_type, openapi_spec_url, openapi_spec, definitions,
      refs, filtered_refs, root_path, imports>>

locals ==
    <<models_type, openapi_spec_url, openapi_spec, definitions,
      refs, filtered_refs, root_path, imports>>

world == <<init_py, requests_sent, files_opened>>

\* A variable of __main__ that is not bound yet.
Unbound == <<>>

Init ==
    /\ argv \in ArgvChoices
    /\ server \in Responses
    /\ init_py \in InitialTrees
    /\ pc = "get_models_type"
    /\ error = ""
    /\ requests_sent = 0
    /\ files_opened = {}
    /\ models_type = Unbound
    /\ openapi_spec_url = Unbound
    /\ openapi_spec = Unbound
    /\ definitions = Unbound
    /\ refs = Unbound
    /\ filtered_refs = Unbound
    /\ root_path = Unbound
    /\ imports = Unbound

\* An uncaught exception ends the process.
Raise(exc) ==
    /\ pc' = "aborted"
    /\ error' = exc

(***************************************************************************)
(* The statements of __main__, one action each                             *)
(***************************************************************************)

\* get_models_type without the assertion on the model type.
GetModelsType_unchecked ==
    /\ pc = "get_models_type"
    /\ IF Len(argv) # 3
       THEN Raise("AssertionError") /\ UNCHANGED models_type
       ELSE /\ models_type' = argv[3]
            /\ pc' = "get_openapi_spec_url"
            /\ UNCHANGED error
    /\ UNCHANGED <<argv, server, world, openapi_spec_url, openapi_spec, definitions,
                   refs, filtered_refs, root_path, imports>>

\* models_type = get_models_type()
GetModelsType ==
    /\ pc = "get_models_type"
    /\ IF Len(argv) # 3
       THEN Raise("AssertionError") /\ UNCHANGED models_type
       ELSE IF argv[3] \notin model_types
       THEN Raise("AssertionError") /\ UNCHANGED models_type
       ELSE /\ models_type' = argv[3]
            /\ pc' = "get_openapi_spec_url"
            /\ UNCHANGED error
    /\ UNCHANGED <<argv, server, world, openapi_spec_url, openapi_spec, definitions,
                   refs, filtered_refs, root_path, imports>>

\* openapi_spec_url = get_openapi_spec_url()
GetOpenapiSpecUrl ==
    /\ pc = "get_openapi_spec_url"
    /\ IF Len(argv) # 3
       THEN Raise("AssertionError") /\ UNCHANGED openapi_spec_url
       ELSE /\ openapi_spec_url' = argv[2]
            /\ pc' = "fetch_openapi_spec"
            /\ UNCHANGED error
    /\ UNCHANGED <<argv, server, world, models_type, openapi_spec, definitions,
                   refs, filtered_refs, root_path, imports>>

\* openapi_spec = fetch_openapi_spec(openapi_spec_url)
FetchOpenapiSpec ==
    /\ pc = "fetch_openapi_spec"
    /\ requests_sent' = requests_sent + 1
    /\ IF ~server.ok
       THEN Raise("ValueError") /\ UNCHANGED openapi_spec
       ELSE IF ~server.is_json
       THEN Raise("JSONDecodeError") /\ UNCHANGED openapi_spec
       ELSE /\ openapi_spec' = server.json
            /\ pc' = "get_openapi_definitions"
            /\ UNCHANGED error
    /\ UNCHANGED <<argv, server, init_py, files_opened, models_type, openapi_spec_url,
                   definitions, refs, filtered_refs, root_path, imports>>

\* get_openapi_definitions answering an empty mapping for a missing entry.
GetOpenapiDefinitions_lenient ==
    /\ pc = "get_openapi_definitions"
    /\ definitions' = IF "definitions" \in DOMAIN openapi_spec
                      THEN openapi_spec.definitions
                      ELSE <<>>
    /\ pc' = "get_refs_from_openapi_definitions"
    /\ UNCHANGED <<argv, server, world, error, models_type, openapi_spec_url,
                   openapi_spec, refs, filtered_refs, root_path, imports>>

\* definitions = get_openapi_definitions(openapi_spec)
GetOpenapiDefinitions ==
    /\ pc = "get_openapi_definitions"
    /\ IF "definitions" \in DOMAIN openapi_spec
       THEN /\ definitions' = openapi_spec.definitions
            /\ pc' = "get_refs_from_openapi_definitions"
            /\ UNCHANGED error
       ELSE Raise("AssertionError") /\ UNCHANGED definitions
    /\ UNCHANGED <<argv, server, world, models_type, openapi_spec_url, openapi_spec,
                   refs, filtered_refs, root_path, imports>>

\* refs = get_refs_from_openapi_definitions(definitions)
GetRefsFromOpenapiDefinitions ==
    /\ pc = "get_refs_from_openapi_definitions"
    /\ refs' = definitions
    /\ pc' = "filter_refs_on_models_type"
    /\ UNCHANGED <<argv, server, world, error, models_type, openapi_spec_url,
                   openapi_spec, definitions, filtered_refs, root_path, imports>>

\* filtered_refs = filter_refs_on_models_type(refs, models_type)
FilterRefsOnModelsType ==
    /\ pc = "filter_refs_on_models_type"
    /\ filtered_refs' \in filter_refs_on_models_type(refs, models_type)
    /\ pc' = "assemble_root_path_from_models_type"
    /\ UNCHANGED <<argv, server, world, error, models_type, openapi_spec_url,
                   openapi_spec, definitions, refs, root_path, imports>>

\* root_path = assemble_root_path_from_models_type(models_type)
AssembleRootPathFromModelsType ==
    /\ pc = "assemble_root_path_from_models_type"
    /\ root_path' = assemble_root_path_from_models_type(models_type)
    /\ pc' = "get_import_paths_from_refs"
    /\ UNCHANGED <<argv, server, world, error, models_type, openapi_spec_url,
                   openapi_spec, definitions, refs, filtered_refs, imports>>

\* imports = get_import_paths_from_refs(filtered_refs, root_path)
GetImportPathsFromRefs ==
    /\ pc = "get_import_paths_from_refs"
    /\ IF \E i \in 1..Len(filtered_refs) : import_path_raises(filtered_refs[i])
       THEN Raise("IndexError") /\ UNCHANGED imports
       ELSE /\ imports' = get_import_paths_from_refs(filtered_refs, root_path)
            /\ pc' = "write_imports"
            /\ UNCHANGED error
    /\ UNCHANGED <<argv, server, world, models_type, openapi_spec_url,
                   openapi_spec, definitions, refs, filtered_refs, root_path>>

\* write_imports(imports, models_type, openapi_spec_url): open(path, "w+")
\* truncates the file, the appends change the caller's list in place, and an
\* exception of sorted() leaves the header and closes the file.
WriteImports ==
    /\ pc = "write_imports"
    /\ LET path       == models_dir(models_type)
           references == appended_references(imports, models_type)
       IN  /\ files_opened' = files_opened \cup {path}
           /\ imports' = references
           /\ IF sorted_refs_raises(references)
              THEN /\ init_py' = [init_py EXCEPT ![path] =
                                      File(<<header(models_type, openapi_spec_url)>>)]
                   /\ Raise("TypeError")
              ELSE /\ init_py' = [init_py EXCEPT ![path] =
                          File(written_chunks(references, models_type, openapi_spec_url))]
                   /\ pc' = "ensure_init"
                   /\ UNCHANGED error
    /\ UNCHANGED <<argv, server, requests_sent, models_type, openapi_spec_url,
                   openapi_spec, definitions, refs, filtered_refs, root_path>>

\* The directories in which ensure_init writes an empty __init__.py.
missing_init ==
    {root \in UNION {walk(t) : t \in model_types} :
        ~in_pycache(root) /\ ~init_py[root].exists}

\* ensure_init()
EnsureInit ==
    /\ pc = "ensure_init"
    /\ init_py' = [d \in Dirs |-> IF d \in missing_init THEN File(<<>>) ELSE init_py[d]]
    /\ files_opened' = files_opened \cup missing_init
    /\ pc' = "done"
    /\ UNCHANGED <<argv, server, error, requests_sent, locals>>

Next ==
    \/ GetModelsType
    \/ GetOpenapiSpecUrl
    \/ FetchOpenapiSpec
    \/ GetOpenapiDefinitions
    \/ GetRefsFromOpenapiDefinitions
    \/ FilterRefsOnModelsType
    \/ AssembleRootPathFromModelsType
    \/ GetImportPathsFromRefs
    \/ WriteImports
    \/ EnsureInit

Spec == Init /\ [][Next]_vars

(***************************************************************************)
(* Vocabulary of the properties, defined without the operators above       *)
(***************************************************************************)

\* sub occurs in s as a contiguous, case-sensitive substring.
Contains(s, sub) ==
    \E i \in 1..(Len(s) - Len(sub) + 1) : SubSeq(s, i, i + Len(sub) - 1) = sub

\* K contains one of the four markers.
HasMarker(K) ==
    \/ Contains(K, s_events)
    \/ Contains(K, s_event)
    \/ Contains(K, s_eventsource)
    \/ Contains(K, s_sensor)

NoDuplicates(seq) == \A i, j \in 1..Len(seq) : i # j => seq[i] # seq[j]

\* a <= b in code point order.
LexLeq(a, b) ==
    \/ \E k \in 1..Len(a) :
          /\ k <= Len(b)
          /\ SubSeq(a, 1, k - 1) = SubSeq(b, 1, k - 1)
          /\ ord[a[k]] < ord[b[k]]
    \/ /\ Len(a) <= Len(b)
       /\ a = SubSeq(b, 1, Len(a))

\* The statements after filter_refs_on_models_type has returned.
AfterFilter ==
    pc \in {"assemble_root_path_from_models_type", "get_import_paths_from_refs",
            "write_imports", "ensure_init", "done"}

\* write_imports has returned: the file of this run is complete.
Generated == pc \in {"ensure_init", "done"}

\* The chunks of the generated file of this run.
Output == init_py[models_dir(models_type)].chunks

\* Its import lines: all chunks but the header and the __all__ line.
OutputImports == SubSeq(Output, 2, Len(Output) - 1)

OutputAll == Output[Len(Output)]

\* C1: for models type events, the filtered list has no duplicates and holds
\* exactly the keys of the input that contain one of the markers events,
\* event, eventsource, sensor as a case-sensitive substring.
C1_EventsFilter ==
    (AfterFilter /\ models_type = s_events) =>
        /\ NoDuplicates(filtered_refs)
        /\ Range(filtered_refs) \subseteq Range(refs)
        /\ \A K \in DefinitionKeys :
              K \in Range(filtered_refs) <=> (K \in Range(refs) /\ HasMarker(K))

\* An events run that kept a key matched by several markers and a key matched
\* inside a longer segment only, or dropped a key spelling Event with a capital.
C1_Witness ==
    /\ pc = "assemble_root_path_from_models_type"
    /\ models_type = s_events
    /\ \/ Range(refs) = {k_events_Sensor, s_core_v1_Event} /\ filtered_refs = <<k_events_Sensor>>
       \/ Range(refs) = {k_policy_Prevent, k_core_v1_Pod} /\ filtered_refs = <<k_policy_Prevent>>

\* C2: for models type workflows, an input key is dropped exactly when it
\* contains one of the four markers or is one of the three core v1 Event,
\* EventSeries, EventSource keys; every other input key is returned once.
C2_WorkflowsFilter ==
    (AfterFilter /\ models_type = s_workflows) =>
        /\ NoDuplicates(filtered_refs)
        /\ Range(filtered_refs) \subseteq Range(refs)
        /\ \A K \in Range(refs) :
              K \notin Range(filtered_refs) <=>
                  \/ HasMarker(K)
                  \/ K \in {s_core_v1_Event, s_core_v1_EventSeries, s_core_v1_EventSource}

\* A workflows run over Event and Pod in which only Pod survived.
C2_Witness ==
    /\ pc = "assemble_root_path_from_models_type"
    /\ models_type = s_workflows
    /\ Range(refs) = {s_core_v1_Event, k_core_v1_Pod}
    /\ filtered_refs = <<k_core_v1_Pod>>

\* The text of an import line between "from " and " import ".
LineImportAt(line) ==
    CHOOSE i \in 1..Len(line) : SubSeq(line, i, i + Len(s_import) - 1) = s_import

LinePath(line) == SubSeq(line, Len(s_from) + 1, LineImportAt(line) - 1)

\* The text after " import ", without the newline: `name` or `name as alias`.
LineTarget(line) == SubSeq(line, LineImportAt(line) + Len(s_import), Len(line) - 1)

LineSymbol(line) ==
    LET t == LineTarget(line)
    IN  IF Contains(t, s_as)
        THEN SubSeq(t, 1, (CHOOSE i \in 1..Len(t) : SubSeq(t, i, i + Len(s_as) - 1) = s_as) - 1)
        ELSE t

\* The name a line binds in the importing module.
LineBinds(line) ==
    LET t == LineTarget(line)
    IN  IF Contains(t, s_as)
        THEN SubSeq(t, (CHOOSE i \in 1..Len(t) : SubSeq(t, i, i + Len(s_as) - 1) = s_as)
                          + Len(s_as), Len(t))
        ELSE t

\* The entries of the __all__ line: the texts between its pairs of quotes.
AllEntries(line) ==
    LET inner  == SubSeq(line, Len(s_all_open) + 1, Len(line) - Len(s_all_close))
        quotes == SelectSeq([i \in 1..Len(inner) |-> i], LAMBDA i : inner[i] = s_quote[1])
    IN  [k \in 1..(Len(quotes) \div 2) |->
             SubSeq(inner, quotes[2 * k - 1] + 1, quotes[2 * k] - 1)]

\* The name a descriptor exports: its alias when it has one, else its symbol.
Exported(d) == IF d.alias # None THEN d.alias[1] ELSE d.name

\* C3: two emitted import descriptors with the same symbol and different
\* module paths carry distinct aliases, so they export different names.
C3_DistinctAliases ==
    Generated =>
        \A i, j \in 1..Len(imports) :
            (imports[i].name = imports[j].name /\ imports[i].path # imports[j].path) =>
                /\ imports[i].alias # imports[j].alias
                /\ Exported(imports[i]) # Exported(imports[j])

s_lower ==
    <<"a","b","c","d","e","f","g","h","i","j","k","l","m","n","o","p","q","r","s","t","u",
      "v","w","x","y","z">>
s_capitals ==
    <<"A","B","C","D","E","F","G","H","I","J","K","L","M","N","O","P","Q","R","S","T","U",
      "V","W","X","Y","Z">>

\* c with a lower-case letter replaced by its capital.
Capital(c) ==
    IF \E k \in 1..Len(s_lower) : s_lower[k] = c
    THEN s_capitals[CHOOSE k \in 1..Len(s_lower) : s_lower[k] = c]
    ELSE c

\* The position of the last dot of a dotted key, and of the dot before it (0 if none).
LastDot(K) == CHOOSE i \in 1..Len(K) : K[i] = s_dot[1] /\ \A j \in (i + 1)..Len(K) : K[j] # s_dot[1]

PrevDot(K) ==
    LET before == {i \in 1..(LastDot(K) - 1) : K[i] = s_dot[1]}
    IN  IF before = {} THEN 0 ELSE CHOOSE i \in before : \A j \in before : j <= i

KeySymbol(K) == SubSeq(K, LastDot(K) + 1, Len(K))

\* The second-to-last segment followed by the symbol, first character capitalised.
KeyAlias(K) ==
    LET raw == SubSeq(K, PrevDot(K) + 1, LastDot(K) - 1) \o KeySymbol(K)
    IN  <<Capital(raw[1])>> \o Tail(raw)

s_hera_workflows_models ==
    <<"h","e","r","a",".","w","o","r","k","f","l","o","w","s",".","m","o","d","e","l","s">>
s_workflows_core_v1 ==
    <<"h","e","r","a",".","w","o","r","k","f","l","o","w","s",".","m","o","d","e","l","s",
      ".","i","o",".","k","8","s",".","a","p","i",".","c","o","r","e",".","v","1">>
s_events_core_v1 ==
    <<"h","e","r","a",".","e","v","e","n","t","s",".","m","o","d","e","l","s",".","i","o",
      ".","k","8","s",".","a","p","i",".","c","o","r","e",".","v","1">>
s_V1HTTPHeader ==
    <<"V","1","H","T","T","P","H","e","a","d","e","r">>

\* C4: get_import_paths_from_refs returns one descriptor per dotted key, in
\* order: module_path is the root path, a dot and the key up to its last dot,
\* symbol is the text after the last dot, and there is an alias exactly for
\* the symbols HTTPHeader and LogEntry, namely the second-to-last segment
\* followed by the symbol, with its first character upper-cased;
\* io.k8s.api.core.v1.HTTPHeader under hera.workflows.models gives
\* hera.workflows.models.io.k8s.api.core.v1, HTTPHeader, V1HTTPHeader.
C4_ImportAssembly ==
    pc = "write_imports" =>
        /\ Len(imports) = Len(filtered_refs)
        /\ \A i \in 1..Len(filtered_refs) :
              LET K == filtered_refs[i]
                  d == imports[i]
              IN  /\ d.path = root_path \o s_dot \o SubSeq(K, 1, LastDot(K) - 1)
                  /\ d.name = KeySymbol(K)
                  /\ d.alias # None <=> KeySymbol(K) \in {s_HTTPHeader, s_LogEntry}
                  /\ d.alias # None => d.alias = Some(KeyAlias(K))
                  /\ (K = k_core_v1_HTTPHeader /\ root_path = s_hera_workflows_models) =>
                        d = [path |-> s_workflows_core_v1, name |-> s_HTTPHeader,
                             alias |-> Some(s_V1HTTPHeader)]

\* Import assembly has run on the key of the example and on a key without alias.
C4_Witness ==
    /\ pc = "write_imports"
    /\ root_path = s_hera_workflows_models
    /\ Range(filtered_refs) = {k_core_v1_HTTPHeader, k_core_v1_Pod}
    /\ \E i \in 1..Len(imports) : imports[i].alias = Some(s_V1HTTPHeader)

\* C5: the import lines of the generated file are sorted by (module path,
\* symbol), each line being in order with the next, and no import line
\* occurs twice.
C5_SortedDistinctImports ==
    Generated =>
        /\ NoDuplicates(OutputImports)
        /\ \A i \in 1..(Len(OutputImports) - 1) :
              LET a == OutputImports[i]
                  b == OutputImports[i + 1]
              IN  \/ LinePath(a) # LinePath(b) /\ LexLeq(LinePath(a), LinePath(b))
                  \/ LinePath(a) = LinePath(b) /\ LexLeq(LineSymbol(a), LineSymbol(b))

\* The part of C5 the code keeps: the import lines are in (module path, symbol) order.
SortedImports ==
    Generated =>
        \A i \in 1..(Len(OutputImports) - 1) :
            LET a == OutputImports[i]
                b == OutputImports[i + 1]
            IN  \/ LinePath(a) # LinePath(b) /\ LexLeq(LinePath(a), LinePath(b))
                \/ LinePath(a) = LinePath(b) /\ LexLeq(LineSymbol(a), LineSymbol(b))

\* C6: the __all__ list of the generated file is sorted and holds exactly one
\* entry per emitted import descriptor: its alias when it has one, else its
\* symbol.
C6_ExportList ==
    Generated =>
        LET entries  == AllEntries(OutputAll)
            exported == [i \in 1..Len(imports) |-> Exported(imports[i])]
            bound    == [i \in 1..Len(OutputImports) |-> LineBinds(OutputImports[i])]
            Count(seq, x) == Cardinality({i \in 1..Len(seq) : seq[i] = x})
        IN  /\ \A i \in 1..(Len(entries) - 1) : LexLeq(entries[i], entries[i + 1])
            /\ Len(entries) = Len(imports)
            /\ Len(entries) = Len(OutputImports)
            /\ \A name \in Range(entries) \cup Range(exported) \cup Range(bound) :
                  /\ Count(entries, name) = Count(exported, name)
                  /\ Count(entries, name) = Count(bound, name)

s_SensorLogEntry ==
    <<"S","e","n","s","o","r","L","o","g","E","n","t","r","y">>

\* A generated events file whose __all__ names an alias and a bare symbol.
C6_Witness ==
    /\ Generated
    /\ models_type = s_events
    /\ Range(filtered_refs) = {k_sensor_LogEntry, k_events_Sensor}
    /\ s_SensorLogEntry \in Range(AllEntries(OutputAll))
    /\ s_Item \in Range(AllEntries(OutputAll))

\* The command line is not a URL followed by workflows or events.
BadArguments == Len(argv) # 3 \/ argv[3] \notin {s_workflows, s_events}

\* C7: with an argument count other than two, or a model type that is neither
\* workflows nor events, the run aborts with an error before any request is
\* sent and before any file is written.
C7_ArgumentError ==
    BadArguments =>
        /\ pc \in {"get_models_type", "aborted"}
        /\ pc = "aborted" => error = "AssertionError"
        /\ requests_sent = 0
        /\ files_opened = {}
        /\ init_py \in InitialTrees

\* A run with the model type sensors has aborted.
C7_Witness ==
    /\ pc = "aborted"
    /\ Len(argv) = 3
    /\ argv[3] = s_sensors
    /\ error = "AssertionError"

TenEnums ==
    {s_ImagePullPolicy, s_TerminationMessagePolicy, s_Protocol, s_Scheme, s_Operator,
     s_Type, s_Phase, s_TypeModel, s_Effect, s_OperatorModel}

SixEvents ==
    {s_Item, s_Event, s_EventResponse, s_GetUserInfoResponse, s_InfoResponse, s_Version}

\* The import line of a symbol without alias.
PlainLine(path, symbol) == s_from \o path \o s_import \o symbol \o s_newline

\* C8: whatever the definitions are, the generated file imports each of the
\* ten enum symbols from hera.<models type>.models.io.k8s.api.core.v1, and
\* each of the six event symbols from
\* hera.events.models.io.argoproj.workflow.v1alpha1 exactly when the models
\* type is events.
C8_FixedSymbols ==
    Generated =>
        LET core_v1 == IF models_type = s_events THEN s_events_core_v1
                       ELSE s_workflows_core_v1
        IN  /\ \A e \in TenEnums :
                  /\ [path |-> core_v1, name |-> e, alias |-> None] \in Range(imports)
                  /\ PlainLine(core_v1, e) \in Range(OutputImports)
            /\ \A e \in SixEvents :
                  /\ models_type = s_events <=>
                        [path |-> s_events_module, name |-> e, alias |-> None]
                            \in Range(imports)
                  /\ models_type = s_events <=>
                        PlainLine(s_events_module, e) \in Range(OutputImports)

\* An events file generated from an empty definitions mapping.
C8_Witness ==
    /\ Generated
    /\ models_type = s_events
    /\ definitions = <<>>
    /\ Len(OutputImports) = 16

\* The keys of S in code point order.
Canonical(S) ==
    CHOOSE q \in Orderings(S) : \A i, j \in 1..Len(q) : i < j => str_lt(q[i], q[j])

\* The chunks of the run that is given the keys in code point order, whose
\* set iterates in code point order, and whose URL is empty.
ReferenceOutput(m_type, keys) ==
    LET refs0     == Canonical(keys)
        filtered0 == Canonical(filter_result_set(refs0, m_type))
        imports0  == get_import_paths_from_refs(
                         filtered0, assemble_root_path_from_models_type(m_type))
    IN  written_chunks(appended_references(imports0, m_type), m_type, <<>>)

\* C9: the generated file depends on the models type and the set of
\* definition keys only, not on the order of the keys or of the set: it is
\* the file of the reference run, but for the URL in its header.
C9_Deterministic ==
    Generated =>
        LET ref == ReferenceOutput(models_type, Range(definitions))
        IN  /\ Tail(Output) = Tail(ref)
            /\ \E k \in 0..Len(ref[1]) :
                  Output[1] = SubSeq(ref[1], 1, k) \o openapi_spec_url
                                  \o SubSeq(ref[1], k + 1, Len(ref[1]))

\* A run that got its keys, and its filtered list, out of code point order.
C9_Witness ==
    /\ Generated
    /\ Len(filtered_refs) >= 2
    /\ refs # Canonical(Range(refs))
    /\ filtered_refs # Canonical(Range(filtered_refs))

StageOrder ==
    <<"get_models_type", "get_openapi_spec_url", "fetch_openapi_spec",
      "get_openapi_definitions", "get_refs_from_openapi_definitions",
      "filter_refs_on_models_type", "assemble_root_path_from_models_type",
      "get_import_paths_from_refs", "write_imports", "ensure_init", "done">>

\* One step of a run in stage order, in which an error ends the run.
OrderedFatalStep ==
    /\ pc # "aborted"
    /\ \/ pc' = "aborted"
       \/ \E k \in 1..(Len(StageOrder) - 1) : pc = StageOrder[k] /\ pc' = StageOrder[k + 1]
    /\ requests_sent' # requests_sent => pc = "fetch_openapi_spec"
    /\ (files_opened' # files_opened \/ init_py' # init_py) =>
           pc \in {"write_imports", "ensure_init"}
    /\ pc = "write_imports" =>
           /\ files_opened' = {models_dir(models_type)}
           /\ \A d \in Dirs \ {models_dir(models_type)} : init_py'[d] = init_py[d]
    /\ (pc = "fetch_openapi_spec" /\ ~server.ok) =>
           pc' = "aborted" /\ error' = "ValueError"
    /\ (pc = "get_openapi_definitions" /\ "definitions" \notin DOMAIN openapi_spec) =>
           pc' = "aborted" /\ error' = "AssertionError"
    /\ pc' = "aborted" => (error' # "" /\ files_opened' = {} /\ init_py' = init_py)

\* C10: the stages run in the order argument check, retrieval, definition
\* extraction, filtering, import assembly, file write, package-marker walk;
\* every error ends the run; a response that is not ok, or a document
\* without definitions, ends it before any file is opened for writing, so
\* that the files of an earlier run stay as they were.
C10_OrderedFatal ==
    /\ [][OrderedFatalStep]_vars
    /\ [](pc = "aborted" => (files_opened = {} /\ init_py \in InitialTrees))

\* A run over a tree generated before has aborted on a document without definitions.
C10_Witness ==
    /\ pc = "aborted"
    /\ requests_sent = 1
    /\ error = "AssertionError"
    /\ init_py[models_dir(models_type)] = StaleFile
====
